---- MODULE Spec2Model ----
(***************************************************************************)
(* Model of the generic d-ary heap of package heap (heap.go): the backing  *)
(* slice data, the logical size heapSize, the branching factor d, the      *)
(* ordering lessFunc and the position index map[T][]int, with the public   *)
(* operations Push, Pop, Peek, Contains and Get and the private helpers    *)
(* parent, child, swap, updateIndex, up and down.                          *)
(*                                                                         *)
(* Positions are 0-based as in the Go code; the slice data is a TLA+       *)
(* sequence, so position i is read with At(data, i) = data[i + 1].  A Go   *)
(* run-time panic (index out of range, slice bounds out of range, integer  *)
(* divide by zero) is recorded in the field fault; the panic unwinds the   *)
(* call, so every later statement of the call is skipped and the heap      *)
(* keeps the partial state of the moment of the panic.  Nothing recovers   *)
(* the panic, so no operation runs after it.                               *)
(*                                                                         *)
(* Three specifications share the actions: Spec (d >= 1, no option),       *)
(* SpecDegenerate (d < 1) and SpecCapacity (built with WithCapacity(c)).   *)
(* The variable ref is a second heap built without options that receives   *)
(* the same calls, for the comparison with the heap built with a capacity. *)
(***************************************************************************)
EXTENDS Integers, Sequences, FiniteSets, TLC

\* ---- bounds of the model ----
MaxSize == 4            \* Push is offered while heapSize < MaxSize
NumValues == 2          \* the element type T is 0 .. NumValues-1
MaxD == 4               \* branching factors 1 .. MaxD
MaxNegD == 2            \* degenerate branching factors -MaxNegD .. 0
MaxCap == 2             \* capacities 0 .. MaxCap given to WithCapacity

Values == 0 .. (NumValues - 1)
Zero == 0               \* `var zero T` for T = int
NoFault == "none"

VARIABLES
  d,          \* Heap.d
  isMinHeap,  \* which lessFunc the caller supplied: a < b or a > b
  data,       \* Heap.data (len(data) = Len(data))
  heapSize,   \* Heap.heapSize
  index,      \* Heap.index: function from the keys present to position lists
  fault,      \* NoFault, or the run-time panic that ended the program
  lastOp,     \* the call made last
  ret,        \* what the last completed call returned: [val, ok]
  preSize,    \* heapSize when the last call was made
  phase,      \* "fill": only pushes so far; "drain": pushes, then only pops; "mixed"
  pushed,     \* the values pushed in phase fill, in call order
  popped,     \* the values returned by the pops of phase drain, in call order
  popCalls,   \* the number of Pop calls made on a non-empty heap in phase drain
  options,    \* the options given to NewHeap: <<>>, or <<c>> for WithCapacity(c)
  ref         \* a second heap, built with the same d and lessFunc and without
              \* options, that receives the same calls: [data, heapSize, index,
              \* fault, ret]

vars == <<d, isMinHeap, data, heapSize, index, fault, lastOp, ret, preSize,
          phase, pushed, popped, popCalls, options, ref>>

\* ---- the heap as a value ----
\* The field log is not part of the Go struct: it lists the swaps completed by
\* the call in progress, each with the heap before and after it.
Self == [data |-> data, heapSize |-> heapSize, index |-> index, fault |-> fault,
         log |-> <<>>]

Bare(h) == [data |-> h.data, heapSize |-> h.heapSize, index |-> h.index,
            fault |-> h.fault]

At(s, i) == s[i + 1]
InRange(s, i) == i >= 0 /\ i < Len(s)
Panic(h, what) == [h EXCEPT !.fault = what]

\* Go's integer division truncates toward zero.
GoDiv(a, b) ==
  LET absa == IF a < 0 THEN -a ELSE a
      absb == IF b < 0 THEN -b ELSE b
      q == absa \div absb
  IN IF (a < 0) # (b < 0) THEN -q ELSE q

lessFunc(a, b) == IF isMinHeap THEN a < b ELSE a > b

parent(i) == GoDiv(i - 1, d)

child(i, k) == d * i + k

\* updateIndex: the loop over indices only breaks, it changes nothing; the
\* assignment writes element 0 of index[element], which panics when the key
\* is missing (nil slice) or its list is empty.
updateIndex(h, element, pos) ==
  IF h.fault # NoFault THEN h
  ELSE IF element \notin DOMAIN h.index \/ Len(h.index[element]) = 0
       THEN Panic(h, "index out of range")
  ELSE [h EXCEPT !.index[element] = [@ EXCEPT ![1] = pos]]

swap(h, i, j) ==
  IF h.fault # NoFault THEN h
  ELSE IF ~InRange(h.data, i) \/ ~InRange(h.data, j)
       THEN Panic(h, "index out of range")
  ELSE LET di == At(h.data, i)
           dj == At(h.data, j)
           h1 == [h EXCEPT !.data = [@ EXCEPT ![i + 1] = dj, ![j + 1] = di]]
           h2 == updateIndex(h1, At(h1.data, i), i)
           h3 == updateIndex(h2, At(h2.data, j), j)
       IN IF h3.fault # NoFault THEN h3
          ELSE [h3 EXCEPT !.log =
                  Append(@, [i |-> i, j |-> j, pre |-> Bare(h), post |-> Bare(h3)])]

\* up without its loop: at most one swap toward the root
upOnce(h, i) ==
  IF h.fault # NoFault \/ ~(i > 0) THEN h
  ELSE IF lessFunc(At(h.data, i), At(h.data, parent(i)))
       THEN swap(h, i, parent(i))
  ELSE h

RECURSIVE up(_, _)
up(h, i) ==
  IF h.fault # NoFault \/ ~(i > 0) THEN h
  ELSE IF d = 0 THEN Panic(h, "integer divide by zero")
  ELSE IF ~InRange(h.data, i) \/ ~InRange(h.data, parent(i))
       THEN Panic(h, "parent index out of range")
  ELSE IF lessFunc(At(h.data, i), At(h.data, parent(i)))
       THEN up(swap(h, i, parent(i)), parent(i))
  ELSE h

\* the inner loop of down comparing every child with data[i] instead of with
\* the smallest found so far
smallestVsNode(h, i, k, smallest) ==
  LET less == {c \in {child(i, kk) : kk \in 1 .. d} :
                 c < h.heapSize /\ lessFunc(At(h.data, c), At(h.data, i))}
  IN IF less = {} THEN smallest
     ELSE CHOOSE c \in less : \A c2 \in less : c2 <= c

\* the inner loop of down: k runs from 1 while k <= d and child(i,k) < heapSize
RECURSIVE smallestFrom(_, _, _, _)
smallestFrom(h, i, k, smallest) ==
  IF k <= d /\ child(i, k) < h.heapSize
  THEN LET childIndex == child(i, k)
       IN smallestFrom(h, i, k + 1,
            IF lessFunc(At(h.data, childIndex), At(h.data, smallest))
            THEN childIndex ELSE smallest)
  ELSE smallest

RECURSIVE down(_, _)
down(h, i) ==
  IF h.fault # NoFault THEN h
  ELSE LET smallest == smallestFrom(h, i, 1, i)
       IN IF smallest = i THEN h
          ELSE down(swap(h, i, smallest), smallest)

\* Peek reading the last element instead of the root
PeekLast(h) == IF h.heapSize = 0 THEN Zero ELSE At(h.data, h.heapSize - 1)

Peek(h) == IF h.heapSize = 0 THEN Zero ELSE At(h.data, 0)

Contains(h, element) == element \in DOMAIN h.index

\* Get: [val, ok, pos, fault]; pos is the position read (-1 when none is read)
Get(h, element) ==
  IF element \notin DOMAIN h.index \/ Len(h.index[element]) = 0
  THEN [val |-> Zero, ok |-> FALSE, pos |-> -1, fault |-> NoFault]
  ELSE LET p == h.index[element][1]
       IN IF ~InRange(h.data, p)
          THEN [val |-> Zero, ok |-> FALSE, pos |-> p, fault |-> "index out of range"]
          ELSE [val |-> At(h.data, p), ok |-> TRUE, pos |-> p, fault |-> NoFault]

\* Push, lines 137-141: write value to slot heapSize, growing data at capacity
storeValue(h, value) ==
  IF Len(h.data) = h.heapSize
  THEN [h EXCEPT !.data = Append(@, value)]
  ELSE [h EXCEPT !.data = [@ EXCEPT ![h.heapSize + 1] = value]]

\* recordIndex that leaves the list of a value already present as it is
recordIndexOnce(h, value) ==
  IF value \in DOMAIN h.index THEN h
  ELSE [h EXCEPT !.index =
          [e \in DOMAIN h.index \cup {value} |->
             IF e = value THEN <<h.heapSize>> ELSE h.index[e]]]

\* Push, lines 143-147: the index entry made for the pushed value, before
\* heapSize is incremented
recordIndex(h, value) ==
  IF value \in DOMAIN h.index
  THEN LET indices == h.index[value]
       IN IF Len(indices) = 0
          THEN Panic(h, "index out of range")
          ELSE [h EXCEPT !.index[value] = Append(indices, indices[1])]
  ELSE [h EXCEPT !.index =
          [e \in DOMAIN h.index \cup {value} |->
             IF e = value THEN <<h.heapSize>> ELSE h.index[e]]]

Push(h, value) ==
  LET h2 == recordIndex(storeValue(h, value), value)
  IN IF h2.fault # NoFault THEN h2
     ELSE up([h2 EXCEPT !.heapSize = @ + 1], h2.heapSize)

\* removeFirstIndex without the delete of the emptied key
removeFirstIndexKeepsKey(h, minValue) ==
  IF minValue \notin DOMAIN h.index \/ Len(h.index[minValue]) = 0
  THEN Panic(h, "slice bounds out of range")
  ELSE [h EXCEPT !.index[minValue] = Tail(@)]

\* Pop, lines 161-164: drop the first position of index[minValue] and delete
\* the key when the list becomes empty.
removeFirstIndex(h, minValue) ==
  IF minValue \notin DOMAIN h.index \/ Len(h.index[minValue]) = 0
  THEN Panic(h, "slice bounds out of range")
  ELSE IF Len(h.index[minValue]) = 1
       THEN [h EXCEPT !.index =
               [e \in DOMAIN h.index \ {minValue} |-> h.index[e]]]
  ELSE [h EXCEPT !.index[minValue] = Tail(@)]

\* Pop on a heap with heapSize > 0, lines 158-168
PopNonEmpty(h) ==
  IF ~InRange(h.data, 0) \/ ~InRange(h.data, h.heapSize - 1)
  THEN [h |-> Panic(h, "index out of range"), val |-> Zero]
  ELSE
  LET minValue == At(h.data, 0)
      lastIndex == h.heapSize - 1
      h1 == [h EXCEPT !.data = [@ EXCEPT ![1] = At(h.data, lastIndex)]]
      h2 == removeFirstIndex(h1, minValue)
      h3 == swap(h2, 0, lastIndex)
      h4 == IF h3.fault # NoFault THEN h3
            ELSE down([h3 EXCEPT !.heapSize = @ - 1], 0)
  IN [h |-> h4, val |-> minValue]

\* Pop without the test for the empty heap
PopNoEmptyCheck(h) == PopNonEmpty(h)

\* Pop: [h, val]; val is the value returned when the call completes
Pop(h) ==
  IF h.heapSize = 0 THEN [h |-> h, val |-> Zero]
  ELSE PopNonEmpty(h)

\* WithCapacity that takes the capacity for the number of elements
WithCapacitySized(h, capacity) ==
  [h EXCEPT !.data = [k \in 1 .. capacity |-> Zero], !.index = <<>>,
            !.heapSize = capacity]

\* WithCapacity: make([]T, capacity) is a slice of LENGTH capacity, filled with
\* the zero value; the index is a fresh empty map
WithCapacity(h, capacity) ==
  [h EXCEPT !.data = [k \in 1 .. capacity |-> Zero], !.index = <<>>]

\* NewHeap: the empty heap (make([]T, 0, defaultCapacity) has length 0), then
\* the options applied in order
RECURSIVE applyOptions(_, _)
applyOptions(h, opts) ==
  IF opts = <<>> THEN h
  ELSE applyOptions(WithCapacity(h, Head(opts)), Tail(opts))

NewHeap(opts) ==
  applyOptions([data |-> <<>>, heapSize |-> 0, index |-> <<>>, fault |-> NoFault,
                log |-> <<>>], opts)

\* ---- the state machine ----
NoRet == [val |-> Zero, ok |-> FALSE]

RefHeap == [data |-> ref.data, heapSize |-> ref.heapSize, index |-> ref.index,
            fault |-> ref.fault, log |-> <<>>]
TwinOf(h, r) == [data |-> h.data, heapSize |-> h.heapSize, index |-> h.index,
                 fault |-> h.fault, ret |-> r]

Init ==
  /\ d \in 1 .. MaxD
  /\ isMinHeap \in BOOLEAN
  /\ data = <<>>
  /\ heapSize = 0
  /\ index = <<>>
  /\ fault = NoFault
  /\ lastOp = "NewHeap"
  /\ ret = NoRet
  /\ preSize = 0
  /\ phase = "fill"
  /\ pushed = <<>>
  /\ popped = <<>>
  /\ popCalls = 0
  /\ options = <<>>
  /\ ref = TwinOf(NewHeap(<<>>), NoRet)

\* NewHeap called with a branching factor d < 1, which it does not reject
InitDegenerate ==
  /\ d \in (0 - MaxNegD) .. 0
  /\ isMinHeap \in BOOLEAN
  /\ data = <<>>
  /\ heapSize = 0
  /\ index = <<>>
  /\ fault = NoFault
  /\ lastOp = "NewHeap"
  /\ ret = NoRet
  /\ preSize = 0
  /\ phase = "fill"
  /\ pushed = <<>>
  /\ popped = <<>>
  /\ popCalls = 0
  /\ options = <<>>
  /\ ref = TwinOf(NewHeap(<<>>), NoRet)

\* NewHeap called with the option WithCapacity(c); the bookkeeping of the
\* fill and drain phases is not kept here
InitCapacity ==
  /\ d \in 1 .. MaxD
  /\ isMinHeap \in BOOLEAN
  /\ options \in {<<c>> : c \in 0 .. MaxCap}
  /\ data = NewHeap(options).data
  /\ heapSize = NewHeap(options).heapSize
  /\ index = NewHeap(options).index
  /\ fault = NewHeap(options).fault
  /\ lastOp = "NewHeap"
  /\ ret = NoRet
  /\ preSize = 0
  /\ phase = "mixed"
  /\ pushed = <<>>
  /\ popped = <<>>
  /\ popCalls = 0
  /\ ref = TwinOf(NewHeap(<<>>), NoRet)

Install(h) ==
  /\ data' = h.data
  /\ heapSize' = h.heapSize
  /\ index' = h.index
  /\ fault' = h.fault

DoPush(value) ==
  /\ fault = NoFault
  /\ heapSize < MaxSize
  /\ Install(Push(Self, value))
  /\ lastOp' = "Push"
  /\ ret' = NoRet
  /\ preSize' = heapSize
  /\ IF phase = "fill"
     THEN /\ phase' = "fill"
          /\ pushed' = Append(pushed, value)
          /\ UNCHANGED <<popped, popCalls>>
     ELSE /\ phase' = "mixed"
          /\ pushed' = <<>>
          /\ popped' = <<>>
          /\ popCalls' = 0
  /\ ref' = IF ref.fault # NoFault THEN ref ELSE TwinOf(Push(RefHeap, value), NoRet)
  /\ UNCHANGED <<d, isMinHeap, options>>

DoPop ==
  /\ fault = NoFault
  /\ LET r == Pop(Self)
     IN /\ Install(r.h)
        /\ ret' = IF r.h.fault = NoFault THEN [val |-> r.val, ok |-> TRUE] ELSE ret
        /\ IF heapSize = 0 \/ phase = "mixed"
           THEN UNCHANGED <<phase, pushed, popped, popCalls>>
           ELSE /\ phase' = "drain"
                /\ popCalls' = popCalls + 1
                /\ popped' = IF r.h.fault = NoFault THEN Append(popped, r.val) ELSE popped
                /\ UNCHANGED pushed
  /\ lastOp' = "Pop"
  /\ preSize' = heapSize
  /\ ref' = IF ref.fault # NoFault THEN ref
            ELSE LET rr == Pop(RefHeap)
                 IN TwinOf(rr.h, IF rr.h.fault = NoFault
                                 THEN [val |-> rr.val, ok |-> TRUE] ELSE ref.ret)
  /\ UNCHANGED <<d, isMinHeap, options>>

DoPeek ==
  /\ fault = NoFault
  /\ lastOp' = "Peek"
  /\ ret' = [val |-> Peek(Self), ok |-> TRUE]
  /\ preSize' = heapSize
  /\ ref' = IF ref.fault # NoFault THEN ref
            ELSE [ref EXCEPT !.ret = [val |-> Peek(RefHeap), ok |-> TRUE]]
  /\ UNCHANGED <<d, isMinHeap, data, heapSize, index, fault, phase, pushed, popped,
                 popCalls, options>>

DoContains(element) ==
  /\ fault = NoFault
  /\ lastOp' = "Contains"
  /\ ret' = [val |-> element, ok |-> Contains(Self, element)]
  /\ preSize' = heapSize
  /\ ref' = IF ref.fault # NoFault THEN ref
            ELSE [ref EXCEPT !.ret = [val |-> element, ok |-> Contains(RefHeap, element)]]
  /\ UNCHANGED <<d, isMinHeap, data, heapSize, index, fault, phase, pushed, popped,
                 popCalls, options>>

DoGet(element) ==
  /\ fault = NoFault
  /\ LET g == Get(Self, element)
     IN /\ fault' = g.fault
        /\ ret' = IF g.fault = NoFault THEN [val |-> g.val, ok |-> g.ok] ELSE ret
  /\ lastOp' = "Get"
  /\ preSize' = heapSize
  /\ ref' = IF ref.fault # NoFault THEN ref
            ELSE LET g == Get(RefHeap, element)
                 IN [ref EXCEPT !.fault = g.fault,
                                !.ret = IF g.fault = NoFault
                                        THEN [val |-> g.val, ok |-> g.ok] ELSE @]
  /\ UNCHANGED <<d, isMinHeap, data, heapSize, index, phase, pushed, popped, popCalls,
                 options>>

Next ==
  \/ \E value \in Values : DoPush(value)
  \/ DoPop
  \/ DoPeek
  \/ \E element \in Values : DoContains(element)
  \/ \E element \in Values : DoGet(element)

Spec == Init /\ [][Next]_vars

SpecDegenerate == InitDegenerate /\ [][Next]_vars

SpecCapacity == InitCapacity /\ [][Next]_vars

\* ---- helpers of the properties ----
Positions == 0 .. (heapSize - 1)
Stored(v) == \E i \in Positions : At(data, i) = v
Count(s, v) == Cardinality({k \in 1 .. Len(s) : s[k] = v})
SortedBy(s) == \A k \in 1 .. (Len(s) - 1) : ~lessFunc(s[k + 1], s[k])
SameValues(s, t) == Len(s) = Len(t) /\ \A v \in Values : Count(s, v) = Count(t, v)

\* C1 - heap order: in every state reached by Push and Pop calls, no element at
\* a position 1 <= i < heapSize strictly precedes the element at its parent
\* position floor((i-1)/d) under lessFunc.
C1_HeapOrder ==
  \A i \in 1 .. (heapSize - 1) :
    ~lessFunc(At(data, i), At(data, (i - 1) \div d))

\* a Pop has just sifted a larger heap down and a strict order is present
C1_Witness ==
  /\ lastOp = "Pop" /\ fault = NoFault /\ phase = "mixed"
  /\ heapSize = 3
  /\ At(data, 0) # At(data, 1) /\ At(data, 0) # At(data, 2)

\* C2 - index completeness: every position i < heapSize appears exactly once in
\* the position list index[data[i]].
C2_IndexComplete ==
  fault = NoFault =>
    \A i \in Positions :
      /\ At(data, i) \in DOMAIN index
      /\ Count(index[At(data, i)], i) = 1

\* C3 - index minimality: no position list holds a position >= heapSize and no
\* key of the index is a value that is stored at no position < heapSize.
C3_IndexMinimal ==
  fault = NoFault =>
    \A v \in DOMAIN index :
      /\ \A k \in 1 .. Len(index[v]) : index[v][k] < heapSize
      /\ Stored(v)

\* C4 - totality: no call of Push, Pop, Peek, Contains or Get ends in a
\* run-time fault.
C4_NoRuntimeFault == fault = NoFault

\* C5 - extraction order: after n pushes onto the empty heap and then n Pop
\* calls, the n pops have returned the pushed values in sorted order and the
\* heap is empty.
C5_ExtractionOrder ==
  (phase = "drain" /\ popCalls = Len(pushed)) =>
    /\ fault = NoFault
    /\ SameValues(popped, pushed)
    /\ SortedBy(popped)
    /\ heapSize = 0

\* C6 - extremal root: whenever the heap is non-empty, Peek returns a stored
\* element that no stored element strictly precedes, and the next Pop returns
\* that same element.
C6_ExtremalRoot ==
  [][(fault = NoFault /\ heapSize > 0) =>
       /\ Stored(Peek(Self))
       /\ \A i \in Positions : ~lessFunc(At(data, i), Peek(Self))
       /\ DoPop => (fault' = NoFault /\ ret'.val = Peek(Self))]_vars

\* C7 - Contains(v) is true exactly when v is stored at a position < heapSize;
\* over a run of pushes followed by pops, exactly when v was pushed more often
\* than popped; and the call returns that answer.
C7_ContainsIffStored ==
  fault = NoFault =>
    /\ \A v \in Values : Contains(Self, v) <=> Stored(v)
    /\ phase \in {"fill", "drain"} =>
         \A v \in Values : Contains(Self, v) <=> Count(pushed, v) > Count(popped, v)
    /\ lastOp = "Contains" => (ret.ok <=> Stored(ret.val))

\* Contains answered false for a value that was pushed and has been popped
\* while other values remain
C7_Witness ==
  /\ lastOp = "Contains" /\ fault = NoFault /\ phase = "drain"
  /\ ~ret.ok /\ Count(pushed, ret.val) > 0 /\ heapSize > 0

\* C8 - Get(v) of a stored v returns (v, true), read from a position <
\* heapSize; Get(v) of a value that is not stored returns (zero, false).
C8_GetReturnsStored ==
  fault = NoFault =>
    \A v \in Values :
      LET g == Get(Self, v)
      IN IF Stored(v)
         THEN g.fault = NoFault /\ g.ok /\ g.val = v /\ g.pos >= 0 /\ g.pos < heapSize
         ELSE g.fault = NoFault /\ ~g.ok /\ g.val = Zero

\* C9 - duplicate tolerance: after k pushes of one value v onto the empty heap,
\* each of the k pops returns v, Contains(v) is true after each of the first
\* k-1 pops and false after the k-th.
C9_DuplicateTolerance ==
  (phase = "drain" /\ \A k \in 1 .. Len(pushed) : pushed[k] = pushed[1]) =>
    /\ fault = NoFault
    /\ Len(popped) = popCalls
    /\ \A k \in 1 .. Len(popped) : popped[k] = pushed[1]
    /\ Contains(Self, pushed[1]) <=> popCalls < Len(pushed)

\* C10 - Pop on an empty heap returns the zero value, raises no fault and
\* leaves heapSize, data and index unchanged.
C10_PopOnEmpty ==
  [][(DoPop /\ heapSize = 0) =>
       /\ fault' = NoFault
       /\ ret' = [val |-> Zero, ok |-> TRUE]
       /\ UNCHANGED <<data, heapSize, index>>]_vars

\* a Pop call on the empty heap has returned
C10_Witness ==
  /\ lastOp = "Pop" /\ preSize = 0 /\ heapSize = 0 /\ fault = NoFault
  /\ ret.val = Zero

\* C11 - Peek is read-only: a Peek call returns data[0] when heapSize > 0 and
\* the zero value otherwise, raises no fault and leaves heapSize, data and
\* index unchanged, so consecutive Peek calls return the same value.
C11_PeekReadOnly ==
  [][DoPeek =>
       /\ ret'.val = (IF heapSize > 0 THEN data[1] ELSE Zero)
       /\ fault' = NoFault
       /\ UNCHANGED <<data, heapSize, index>>
       /\ lastOp = "Peek" => ret'.val = ret.val]_vars

\* a Peek call has returned on a heap of several elements whose root is not
\* its last element
C11_Witness ==
  /\ lastOp = "Peek" /\ fault = NoFault /\ heapSize >= 3
  /\ ret.val = At(data, 0) /\ At(data, 0) # At(data, heapSize - 1)

\* C12 - Push records the new slot: the position Push(v) adds to the position
\* list index[v] in a state with heapSize = n is n, whether or not v already
\* has an index entry.
C12_PushRecordsSlot ==
  (fault = NoFault /\ heapSize < MaxSize) =>
    \A v \in Values :
      LET h2 == recordIndex(storeValue(Self, v), v)
          before == IF v \in DOMAIN index THEN index[v] ELSE <<>>
      IN /\ h2.fault = NoFault
         /\ h2.index[v] = Append(before, heapSize)

\* the swaps made by up in Push(v), and by down in Pop (the first swap of a Pop
\* is the one Pop makes itself)
UpSwaps(v) == Push(Self, v).log
DownSwaps == LET l == Pop(Self).h.log IN IF Len(l) = 0 THEN l ELSE Tail(l)
Elems(s) == {s[k] : k \in 1 .. Len(s)}

\* what C13 requires of one swap(i, j): x went from j to i, y from i to j
SwapCoUpdates(e) ==
  LET x == At(e.post.data, e.i)
      y == At(e.post.data, e.j)
  IN /\ x = At(e.pre.data, e.j) /\ y = At(e.pre.data, e.i)
     /\ x \in DOMAIN e.post.index /\ e.i \in Elems(e.post.index[x])
     /\ y \in DOMAIN e.post.index /\ e.j \in Elems(e.post.index[y])
     /\ e.j \notin Elems(e.post.index[x])
     /\ e.i \notin Elems(e.post.index[y])
     /\ DOMAIN e.post.index = DOMAIN e.pre.index
     /\ \A v \in DOMAIN e.pre.index \ {x, y} : e.post.index[v] = e.pre.index[v]

\* C13 - swap co-updates the index: after every swap(i, j) made by up or down,
\* index[data[i]] contains i, index[data[j]] contains j, the old positions of
\* the two moved elements are no longer recorded for them and no entry of
\* another value has changed.
C13_SwapCoUpdatesIndex ==
  fault = NoFault =>
    /\ heapSize < MaxSize =>
         \A v \in Values :
           \A k \in 1 .. Len(UpSwaps(v)) : SwapCoUpdates(UpSwaps(v)[k])
    /\ heapSize > 0 =>
         \A k \in 1 .. Len(DownSwaps) : SwapCoUpdates(DownSwaps[k])

\* the reference procedure of C14: the existing children of node i, the child
\* to swap with (i itself when no child strictly precedes data[i]), and the
\* layout it produces
Children(h, i) == {c \in (d * i + 1) .. (d * i + d) : c < h.heapSize}
RefChild(h, i) ==
  LET best == {c \in Children(h, i) :
                 /\ lessFunc(At(h.data, c), At(h.data, i))
                 /\ \A c2 \in Children(h, i) : ~lessFunc(At(h.data, c2), At(h.data, c))}
  IN IF best = {} THEN i
     ELSE CHOOSE c \in best : \A c2 \in best : c <= c2
RECURSIVE RefDown(_, _)
RefDown(h, i) ==
  LET c == RefChild(h, i)
  IN IF c = i THEN h.data
     ELSE RefDown([h EXCEPT !.data = [@ EXCEPT ![i + 1] = At(h.data, c),
                                               ![c + 1] = At(h.data, i)]], c)

\* C14 - sift-down child selection: every swap of down at node i is with the
\* lowest-numbered existing child that no other child precedes and that
\* strictly precedes data[i]; down stops where no child strictly precedes
\* data[i]; so the layout after Pop is that of the reference procedure, and
\* for d = 4, push 5,3,4,1, Pop leaves [3,5,4] in the min-heap (and [4,3,1]
\* in the max-heap, where the second child is the one selected).
C14_SiftDownSelection ==
  /\ (fault = NoFault /\ heapSize > 0 /\ Pop(Self).h.fault = NoFault) =>
       LET r == Pop(Self).h
           ds == DownSwaps
           moved == [data |-> [data EXCEPT ![1] = data[heapSize]],
                     heapSize |-> heapSize - 1]
           stop == IF Len(ds) = 0 THEN 0 ELSE ds[Len(ds)].j
       IN /\ \A k \in 1 .. Len(ds) :
               /\ ds[k].i = (IF k = 1 THEN 0 ELSE ds[k - 1].j)
               /\ ds[k].j # ds[k].i
               /\ ds[k].j = RefChild(ds[k].pre, ds[k].i)
          /\ RefChild(r, stop) = stop
          /\ r.heapSize = heapSize - 1
          /\ r.data = RefDown(moved, 0)
  /\ (d = 4 /\ isMinHeap) =>
       LET r == Pop(Push(Push(Push(Push(NewHeap(<<>>), 5), 3), 4), 1))
       IN r.val = 1 /\ r.h.heapSize = 3 /\ SubSeq(r.h.data, 1, 3) = <<3, 5, 4>>
  /\ (d = 4 /\ ~isMinHeap) =>
       LET r == Pop(Push(Push(Push(Push(NewHeap(<<>>), 5), 3), 4), 1))
       IN r.val = 5 /\ r.h.heapSize = 3 /\ SubSeq(r.h.data, 1, 3) = <<4, 3, 1>>

\* a Pop whose sift-down swaps the root with the first of two equal smallest
\* children
C14_Witness ==
  /\ fault = NoFault /\ heapSize > 0 /\ Pop(Self).h.fault = NoFault
  /\ Len(DownSwaps) >= 1
  /\ \E c \in Children(DownSwaps[1].pre, 0) :
       /\ c > DownSwaps[1].j
       /\ At(DownSwaps[1].pre.data, c) = At(DownSwaps[1].pre.data, DownSwaps[1].j)

\* the number of positions < n of the store s that hold x
Occurrences(s, n, x) == Cardinality({i \in 0 .. (n - 1) : At(s, i) = x})

\* C15 - multiset conservation: Push(v) increases heapSize by exactly 1 and
\* adds one occurrence of v to the values at positions < heapSize; Pop on a
\* non-empty heap decreases heapSize by exactly 1, returns the former data[0]
\* and removes one occurrence of it.
C15_MultisetConservation ==
  [][/\ \A v \in Values :
          DoPush(v) =>
            /\ heapSize' = heapSize + 1
            /\ \A x \in Values :
                 Occurrences(data', heapSize', x) =
                   Occurrences(data, heapSize, x) + (IF x = v THEN 1 ELSE 0)
     /\ (DoPop /\ heapSize > 0) =>
          /\ fault' = NoFault
          /\ heapSize' = heapSize - 1
          /\ ret'.val = data[1]
          /\ \A x \in Values :
               Occurrences(data', heapSize', x) =
                 Occurrences(data, heapSize, x) - (IF x = data[1] THEN 1 ELSE 0)]_vars

\* the sum of the lengths of the position lists of the values 0 .. n
RECURSIVE SumLen(_)
SumLen(n) ==
  IF n < 0 THEN 0
  ELSE (IF n \in DOMAIN index THEN Len(index[n]) ELSE 0) + SumLen(n - 1)

\* C16 - index multiplicity: for every value v the length of index[v] is the
\* number of positions < heapSize holding v, no key has an empty position
\* list, and the lengths add up to heapSize.
C16_IndexMultiplicity ==
  fault = NoFault =>
    /\ \A v \in DOMAIN index :
         Len(index[v]) >= 1 /\ Len(index[v]) = Occurrences(data, heapSize, v)
    /\ \A v \in Values \ DOMAIN index : Occurrences(data, heapSize, v) = 0
    /\ SumLen(NumValues - 1) = heapSize

\* after pushes and pops in any order a duplicated value and another value are
\* both in the heap
C16_Witness ==
  /\ lastOp = "Pop" /\ fault = NoFault /\ phase = "mixed"
  /\ Cardinality(DOMAIN index) >= 2
  /\ \E v \in DOMAIN index : Len(index[v]) >= 2

\* C17 - degenerate branching factor: on a heap built with d < 1 no Push or
\* Pop ends in a divide-by-zero fault or in an out-of-range access at a
\* position computed by parent or child.
C17_NoDegenerateFault ==
  fault \notin {"integer divide by zero", "parent index out of range"}

\* what C18 compares in a state: the heap built with WithCapacity(c) and the
\* heap built without options have returned the same result, both ended in a
\* fault or neither, they have the same size and the same values at the
\* positions < size, and in both the size is at most the length of the store
SameAsWithoutOption ==
  /\ ret = ref.ret
  /\ fault = ref.fault
  /\ heapSize = ref.heapSize
  /\ heapSize <= Len(data)
  /\ ref.heapSize <= Len(ref.data)
  /\ SubSeq(data, 1, heapSize) = SubSeq(ref.data, 1, ref.heapSize)

\* C18 - the capacity hint is only a hint: under every sequence of Push, Pop,
\* Peek, Contains and Get calls the heap built with WithCapacity(c), c >= 0,
\* and the heap built without the option agree as above, and the length of
\* neither backing store ever decreases.
C18_CapacityIsOnlyAHint ==
  [][/\ SameAsWithoutOption
     /\ SameAsWithoutOption'
     /\ Len(data') >= Len(data)
     /\ Len(ref.data') >= Len(ref.data)]_vars

\* a heap built with a positive capacity has outgrown it, and after a Pop a
\* Get has found a value in it
C18_Witness ==
  /\ options # <<>> /\ options[1] > 0
  /\ Len(data) > options[1]
  /\ Len(data) = Len(ref.data)
  /\ lastOp = "Get" /\ ret.ok /\ fault = NoFault
  /\ heapSize < Len(data) /\ heapSize >= 2

====
